---------------------------- MODULE Spec2Model ----------------------------
(***************************************************************************)
(* The matching game of SimpleTranslator (client game script): the history *)
(* snapshot fetched from the server, pair selection, board construction    *)
(* and the per-round card state machine with its three timers.             *)
(***************************************************************************)
EXTENDS Integers, Sequences, FiniteSets, TLC

(***************************************************************************)
(* Bounds of the model.                                                    *)
(***************************************************************************)
\* the server's history holds the first 0..MaxRecords records of History
MaxRecords == 4
\* number of clicks on the reset button in one behaviour
MaxResets == 1
\* largest history of the board-construction specification
MaxBoardRecords == 9
\* writes to the history store after which no further request is issued
MaxWrites == 12
\* the same, when two requests may be in flight together
MaxRaceWrites == 2
\* number of DELETE /clear requests in one behaviour
MaxClears == 1
\* POST /translate requests outstanding together
MaxTranslating == 2

(***************************************************************************)
(* Program constants.                                                      *)
(***************************************************************************)
MinPairs == 3
MaxPairs == 6

NotEnoughWords == "Not enough words to play. Please save more words."

Rec(i, o) == [input |-> i, output |-> o]

\* The records the server can hold, in the order /read returns them.  Some
\* records share an input ("cat", "dog"); "dog" and "hound" share an output.
History ==
  << Rec("cat", "chat"), Rec("dog", "chien"), Rec("cat", "minou"),
     Rec("hound", "chien"), Rec("dog", "perro"), Rec("sun", "soleil"),
     Rec("sky", "ciel"), Rec("sea", "mer"), Rec("tree", "arbre"),
     Rec("bird", "oiseau"), Rec("fish", "poisson") >>

Min2(a, b) == IF a < b THEN a ELSE b
Max2(a, b) == IF a > b THEN a ELSE b

Stores == { SubSeq(History, 1, n) : n \in 0..Min2(MaxRecords, Len(History)) }

BoardStores ==
  { SubSeq(History, 1, n) : n \in 0..Min2(MaxBoardRecords, Len(History)) }

VARIABLES
  store,             \* what GET /read?n=50 answers when it succeeds
  pending,           \* fetchTranslations calls in flight (0 is the page load's)
  issued,            \* number of reset clicks so far
  rounds,            \* the closures created by initializeGame, oldest first
  container,         \* index in rounds of the cards under #game-container, 0 if none
  containerDisabled, \* #game-container carries the class 'disabled'
  message,           \* #message textContent
  winnerDisplay,     \* #winner-message style.display
  resetDisplay,      \* #reset-button style.display
  resetListener,     \* resetGame is registered on #reset-button
  thrown             \* a timer callback dereferenced a null card

\* the history store and the server routes on it
VARIABLES
  db,                \* documents of the PouchDB "translation-history"
  inflight,          \* per connection, the route handler waiting on the store
  reply,             \* the last response a route has sent
  clears             \* number of DELETE /clear requests so far

\* the translate page
VARIABLES
  inputText,         \* #input-textbox value
  outputText,        \* #output-textbox value
  langIn,            \* value of the first language dropdown
  langOut,           \* value of the second language dropdown
  translating        \* POST /translate requests whose response is outstanding

gameVars == << store, pending, issued, rounds, container, containerDisabled,
               message, winnerDisplay, resetDisplay, resetListener, thrown >>

serverVars == << db, inflight, reply, clears >>

pageVars == << inputText, outputText, langIn, langOut, translating >>

vars == << gameVars, serverVars, pageVars >>

\* a connection with no request on it
Idle == [kind |-> "idle"]

NoResponse == [route |-> "", status |-> 0]

\* The game specifications take the server as the answer `store` of GET
\* /read; the store, its routes and the translate page stay as they start.
ServerAtRest ==
  /\ db = {}
  /\ inflight = << Idle, Idle >>
  /\ reply = NoResponse
  /\ clears = 0

PageAtRest ==
  /\ inputText = ""
  /\ outputText = ""
  /\ langIn = "en"
  /\ langOut = "fr"
  /\ translating = << >>

(***************************************************************************)
(* Pure helpers of the game script.                                        *)
(***************************************************************************)
Reverse(s) == [i \in 1..Len(s) |-> s[Len(s) + 1 - i]]

\* variant: every record makes an entry of its own
MapSetAppends(m, item) == Append(m, item)

\* Map.prototype.set on the insertion-ordered entries of a Map keyed by input
MapSet(m, item) ==
  IF \E i \in 1..Len(m) : m[i].input = item.input
  THEN [i \in 1..Len(m) |-> IF m[i].input = item.input THEN item ELSE m[i]]
  ELSE Append(m, item)

RECURSIVE MapOf(_)
MapOf(ts) ==
  IF ts = << >> THEN << >>
  ELSE MapSet(MapOf(SubSeq(ts, 1, Len(ts) - 1)), ts[Len(ts)])

\* [...new Map(translations.map(item => [item.input, item])).values()]
UniqueTranslations(translations) == MapOf(translations)

\* variant: positions are drawn independently, so an element can repeat
shuffleArrayRepeats(array) ==
  { array, [i \in 1..Len(array) |-> array[1]] }

\* array.sort(() => 0.5 - Math.random()): some permutation of the array; the
\* model follows two of them, the array as it was and the array reversed
shuffleArray(array) == { array, Reverse(array) }

getRandomSubset(array, size) ==
  { SubSeq(shuffled, 1, Min2(size, Len(shuffled))) : shuffled \in shuffleArray(array) }

\* variant: the box listens for clicks from its creation
createBoxListening(content, id) ==
  [ id       |-> id,
    content  |-> content,
    classes  |-> {"box", "initial"},
    text     |-> content,
    listener |-> TRUE ]

\* dataset.id is `${side}-${index}`, kept as the pair << side, index >>
createBox(content, id) ==
  [ id       |-> id,
    content  |-> content,
    classes  |-> {"box", "initial"},
    text     |-> content,
    listener |-> FALSE ]

\* the forEach of initializeGame: input card then output card of each pair
BuildCards(selected) ==
  [ j \in 1..(2 * Len(selected)) |->
      IF j % 2 = 1
      THEN createBox(selected[(j + 1) \div 2].input,  << "input",  (j + 1) \div 2 - 1 >>)
      ELSE createBox(selected[j \div 2].output, << "output", j \div 2 - 1 >>) ]

\* dataset.id.split('-')[1]
PairIdOf(card) == card.id[2]

\* variant: no upper limit
NumPairsUncapped(unique) == Max2(MinPairs, Len(unique))

NumPairs(unique) == Min2(MaxPairs, Max2(MinPairs, Len(unique)))

NewRound(q, cards) ==
  [ req          |-> q,
    cards        |-> cards,
    revealTimer  |-> TRUE,
    firstCard    |-> 0,
    secondCard   |-> 0,
    lockBoard    |-> FALSE,
    flipTimer    |-> FALSE,
    autoHideTimers |-> 0,
    mismatchTimers |-> 0,
    matchedCount |-> 0,
    wins         |-> 0 ]

\* A closure that nothing references any more (its cards are off the page
\* and none of its timers is pending) can never run again; it is kept as an
\* empty record.
Unreachable(rd, onPage) ==
  /\ ~onPage
  /\ ~rd.revealTimer
  /\ rd.autoHideTimers = 0
  /\ rd.mismatchTimers = 0

Collected(rd) == [NewRound(rd.req, << >>) EXCEPT !.revealTimer = FALSE]

Heap(rs, onPage) ==
  [r \in 1..Len(rs) |->
     IF Unreachable(rs[r], r = onPage) THEN Collected(rs[r]) ELSE rs[r]]

(***************************************************************************)
(* flipCard and the callbacks it schedules, on one round's closure.        *)
(* A round record holds the closure variables of initializeGame's timeout  *)
(* callback; flipTimer tells whether the handle kept in flipTimer still    *)
(* names a pending timer, autoHideTimers and mismatchTimers count the      *)
(* pending callbacks of each kind, wins counts the executions of the win   *)
(* branch.                                                                 *)
(***************************************************************************)
Show(card) ==
  [card EXCEPT !.classes = (@ \cup {"flipped"}) \ {"hidden"},
               !.text = card.content]

Hide(card) ==
  [card EXCEPT !.classes = (@ \ {"flipped"}) \cup {"hidden"},
               !.text = ""]

\* variant: the click listener is not removed
MarkMatchedKeepsListener(card) ==
  [card EXCEPT !.classes = @ \cup {"matched"}]

MarkMatched(card) ==
  [card EXCEPT !.classes = @ \cup {"matched"}, !.listener = FALSE]

\* variant: the selection slots are left as they are
resetBoardUnlockOnly(rd) == [rd EXCEPT !.lockBoard = FALSE]

\* variant: the board is left locked
resetBoardStaysLocked(rd) == [rd EXCEPT !.firstCard = 0, !.secondCard = 0]

resetBoard(rd) ==
  [rd EXCEPT !.firstCard = 0, !.secondCard = 0, !.lockBoard = FALSE]

\* variant: the lock is not consulted
IgnoredFirstOnly(rd, c) == c = rd.firstCard

\* if (lockBoard || this === firstCard) return;
Ignored(rd, c) == rd.lockBoard \/ c = rd.firstCard

\* variant: the pending timer is left running
ClearFlipTimerForgets(rd) == rd

\* clearTimeout(flipTimer)
ClearFlipTimer(rd) ==
  IF rd.flipTimer
  THEN [rd EXCEPT !.flipTimer = FALSE, !.autoHideTimers = @ - 1]
  ELSE rd

\* flipTimer = setTimeout(..., 2000)
StartFlipTimer(rd) ==
  [rd EXCEPT !.flipTimer = TRUE, !.autoHideTimers = @ + 1]

\* variant: the shown texts are compared
isMatchByContent(a, b) == a.content = b.content

\* variant: the textContent of the two boxes is compared
isMatchByText(a, b) == a.text = b.text

isMatch(a, b) == PairIdOf(a) = PairIdOf(b)

\* variant: the last pair is not waited for
IsWinEarly(rd) == rd.matchedCount >= Len(rd.cards) - 2

IsWin(rd) == rd.matchedCount = Len(rd.cards)

\* variant: the pair counts once
MatchedCountsOne(rd) ==
  LET m == [rd EXCEPT !.cards[rd.firstCard] = MarkMatched(@),
                      !.cards[rd.secondCard] = MarkMatched(@),
                      !.matchedCount = @ + 1]
  IN  resetBoard(IF IsWin(m) THEN [m EXCEPT !.wins = @ + 1] ELSE m)

Matched(rd) ==
  LET m == [rd EXCEPT !.cards[rd.firstCard] = MarkMatched(@),
                      !.cards[rd.secondCard] = MarkMatched(@),
                      !.matchedCount = @ + 2]
  IN  resetBoard(IF IsWin(m) THEN [m EXCEPT !.wins = @ + 1] ELSE m)

\* variant: the slots are cleared at once, before the timeout runs
MismatchedResetsNow(rd) == resetBoard([rd EXCEPT !.mismatchTimers = @ + 1])

Mismatched(rd) == [rd EXCEPT !.mismatchTimers = @ + 1]

\* flipCard past its early return: an accepted selection
Selected(rd, c) ==
  LET shown == [ClearFlipTimer(rd) EXCEPT !.cards[c] = Show(@)]
  IN  IF shown.firstCard = 0
      THEN StartFlipTimer([shown EXCEPT !.firstCard = c])
      ELSE LET sel == [shown EXCEPT !.secondCard = c, !.lockBoard = TRUE]
           IN  IF isMatch(sel.cards[sel.firstCard], sel.cards[sel.secondCard])
               THEN Matched(sel)
               ELSE Mismatched(sel)

\* variant: the pending timer is cleared before the early return
flipCardClearsFirst(rd, c) ==
  IF Ignored(rd, c) THEN ClearFlipTimer(rd) ELSE Selected(rd, c)

flipCard(rd, c) == IF Ignored(rd, c) THEN rd ELSE Selected(rd, c)

\* variant: the first-selection slot is not cleared
AutoHideKeepsSlot(rd) ==
  LET t == [rd EXCEPT !.autoHideTimers = @ - 1,
                      !.flipTimer = IF rd.autoHideTimers = 1 THEN FALSE ELSE @]
  IN  [t EXCEPT !.cards[rd.firstCard] = Hide(@)]

\* the callback of flipTimer; timers of one delay fire oldest first, so the
\* one the handle names fires only when it is the single pending one
AutoHideFired(rd) ==
  LET t == [rd EXCEPT !.autoHideTimers = @ - 1,
                      !.flipTimer = IF rd.autoHideTimers = 1 THEN FALSE ELSE @]
  IN  [t EXCEPT !.cards[rd.firstCard] = Hide(@), !.firstCard = 0]

\* variant: only the second card is turned back
MismatchHidesSecondOnly(rd) ==
  LET t == [rd EXCEPT !.mismatchTimers = @ - 1]
  IN  resetBoard([t EXCEPT !.cards[rd.secondCard] = Hide(@)])

\* the callback of the mismatch timeout
MismatchFired(rd) ==
  LET t == [rd EXCEPT !.mismatchTimers = @ - 1]
  IN  resetBoard([t EXCEPT !.cards[rd.firstCard] = Hide(@),
                           !.cards[rd.secondCard] = Hide(@)])

\* the callback of the reveal delay: hide every card, create the closure
\* variables, register flipCard on every card
RevealFired(rd) ==
  [rd EXCEPT !.revealTimer = FALSE,
             !.cards = [j \in 1..Len(rd.cards) |->
                          [rd.cards[j] EXCEPT
                             !.classes = (@ \ {"initial"}) \cup {"hidden"},
                             !.text = "",
                             !.listener = TRUE]]]

(***************************************************************************)
(* initializeGame(translations), called for the fetch q.                   *)
(***************************************************************************)
initializeGame(translations, q) ==
  LET uniqueTranslations == UniqueTranslations(translations) IN
  /\ winnerDisplay' = "none"
  /\ resetDisplay' = "none"
  /\ IF Len(uniqueTranslations) < MinPairs
     THEN /\ message' = NotEnoughWords
          /\ containerDisabled' = TRUE
          /\ container' = 0
          /\ rounds' = Heap(rounds, 0)
     ELSE /\ message' = ""
          /\ containerDisabled' = containerDisabled
          /\ \E selected \in getRandomSubset(uniqueTranslations,
                                             NumPairs(uniqueTranslations)) :
               \E cards \in shuffleArray(BuildCards(selected)) :
                 rounds' = Heap(Append(rounds, NewRound(q, cards)),
                                Len(rounds) + 1)
          /\ container' = Len(rounds) + 1

\* What fetch('/read?n=50') can come back with: the history with status 200,
\* a response that is not ok (the route answers 404 with an HTML page), or a
\* rejection by the network.
Responses ==
  { [kind |-> "ok", body |-> store],
    [kind |-> "notOk", body |-> << >>],
    [kind |-> "networkError", body |-> << >>] }

\* variant: a failed fetch answers with the history all the same
fetchTranslationsAnyway(response) == store

\* fetchTranslations resolves to the parsed body, or to [] from its catch
fetchTranslations(response) ==
  IF response.kind = "ok" THEN response.body ELSE << >>

FetchOutcomes == { fetchTranslations(response) : response \in Responses }

(***************************************************************************)
(* The events.                                                             *)
(***************************************************************************)
\* the DOMContentLoaded handler resumes after its await
PageLoadFetched ==
  /\ 0 \in pending
  /\ pending' = pending \ {0}
  /\ \E translations \in FetchOutcomes : initializeGame(translations, 0)
  /\ resetListener' = TRUE
  /\ UNCHANGED << serverVars, pageVars, store, issued, thrown >>

\* a click on the visible reset button: resetGame issues a fetch
ResetClick ==
  /\ resetListener
  /\ resetDisplay = "block"
  /\ issued < MaxResets
  /\ issued' = issued + 1
  /\ pending' = pending \cup {issued + 1}
  /\ UNCHANGED << serverVars, pageVars, store, rounds, container, containerDisabled, message,
                  winnerDisplay, resetDisplay, resetListener, thrown >>

\* the then-callback of resetGame
ResetFetched(q) ==
  /\ q \in pending \ {0}
  /\ pending' = pending \ {q}
  /\ \E translations \in FetchOutcomes : initializeGame(translations, q)
  /\ UNCHANGED << serverVars, pageVars, store, issued, resetListener, thrown >>

\* variant: the callbacks work on whatever board is on the page
ClosureOnPage(r) == IF container = 0 THEN r ELSE container

\* The round whose cards and closure variables a timer callback of round r
\* works on: the arrow functions capture the cards array and the let
\* variables of their own initializeGame call.
ClosureOf(r) == r

RevealTimer(r) ==
  /\ rounds[r].revealTimer
  /\ rounds' = Heap([rounds EXCEPT ![ClosureOf(r)] = RevealFired(@)], container)
  /\ UNCHANGED << serverVars, pageVars, store, pending, issued, container, containerDisabled,
                  message, winnerDisplay, resetDisplay, resetListener, thrown >>

\* a click on card c of the board on screen; it runs flipCard when the card
\* has the listener
Click(r, c) ==
  /\ container = r
  /\ LET rd == IF rounds[r].cards[c].listener
               THEN flipCard(rounds[r], c) ELSE rounds[r]
     IN  /\ rounds' = [rounds EXCEPT ![r] = rd]
         /\ IF rd.wins > rounds[r].wins
            THEN winnerDisplay' = "block" /\ resetDisplay' = "block"
            ELSE UNCHANGED << winnerDisplay, resetDisplay >>
  /\ UNCHANGED << serverVars, pageVars, store, pending, issued, container, containerDisabled,
                  message, resetListener, thrown >>

\* a null firstCard makes the callback throw at its first statement
AutoHideThrew(rd) ==
  [rd EXCEPT !.autoHideTimers = @ - 1,
             !.flipTimer = IF rd.autoHideTimers = 1 THEN FALSE ELSE @]

AutoHideTimer(r) ==
  /\ rounds[r].autoHideTimers > 0
  /\ IF rounds[ClosureOf(r)].firstCard = 0
     THEN /\ thrown' = TRUE
          /\ rounds' = Heap([rounds EXCEPT ![ClosureOf(r)] = AutoHideThrew(@)],
                            container)
     ELSE /\ thrown' = thrown
          /\ rounds' = Heap([rounds EXCEPT ![ClosureOf(r)] = AutoHideFired(@)],
                            container)
  /\ UNCHANGED << serverVars, pageVars, store, pending, issued, container, containerDisabled,
                  message, winnerDisplay, resetDisplay, resetListener >>

\* a null slot makes the callback throw where it first dereferences it
MismatchThrew(rd) ==
  LET t == [rd EXCEPT !.mismatchTimers = @ - 1]
  IN  IF rd.firstCard = 0 THEN t
      ELSE [t EXCEPT !.cards[rd.firstCard].classes = @ \ {"flipped"}]

MismatchTimer(r) ==
  /\ rounds[r].mismatchTimers > 0
  /\ IF rounds[ClosureOf(r)].firstCard = 0 \/ rounds[ClosureOf(r)].secondCard = 0
     THEN /\ thrown' = TRUE
          /\ rounds' = Heap([rounds EXCEPT ![ClosureOf(r)] = MismatchThrew(@)],
                            container)
     ELSE /\ thrown' = thrown
          /\ rounds' = Heap([rounds EXCEPT ![ClosureOf(r)] = MismatchFired(@)],
                            container)
  /\ UNCHANGED << serverVars, pageVars, store, pending, issued, container, containerDisabled,
                  message, winnerDisplay, resetDisplay, resetListener >>

Init ==
  /\ store \in Stores
  /\ pending = {0}
  /\ issued = 0
  /\ rounds = << >>
  /\ container = 0
  /\ containerDisabled = FALSE
  /\ message = ""
  /\ winnerDisplay = "none"
  /\ resetDisplay = "none"
  /\ resetListener = FALSE
  /\ thrown = FALSE
  /\ ServerAtRest
  /\ PageAtRest

Next ==
  \/ PageLoadFetched
  \/ ResetClick
  \/ \E q \in 1..MaxResets : ResetFetched(q)
  \/ \E r \in 1..Len(rounds) : RevealTimer(r)
  \/ \E r \in 1..Len(rounds) : \E c \in 1..Len(rounds[r].cards) : Click(r, c)
  \/ \E r \in 1..Len(rounds) : AutoHideTimer(r)
  \/ \E r \in 1..Len(rounds) : MismatchTimer(r)

Spec == Init /\ [][Next]_vars

\* The specification of the liveness claims: a pending timer fires, and the
\* user clicks the reset button only when no fetch is outstanding.
ResetClickIdle == pending = {} /\ ResetClick

NextIdle ==
  \/ PageLoadFetched
  \/ ResetClickIdle
  \/ \E q \in 1..MaxResets : ResetFetched(q)
  \/ \E r \in 1..Len(rounds) : RevealTimer(r)
  \/ \E r \in 1..Len(rounds) : \E c \in 1..Len(rounds[r].cards) : Click(r, c)
  \/ \E r \in 1..Len(rounds) : AutoHideTimer(r)
  \/ \E r \in 1..Len(rounds) : MismatchTimer(r)

FairSpec ==
  /\ Init
  /\ [][NextIdle]_vars
  /\ \A r \in 1..(MaxResets + 1) :
       /\ WF_vars(r \in 1..Len(rounds) /\ RevealTimer(r))
       /\ WF_vars(r \in 1..Len(rounds) /\ AutoHideTimer(r))
       /\ WF_vars(r \in 1..Len(rounds) /\ MismatchTimer(r))

\* The specification of the reset claims: the reset button stays visible
\* until the answer to a click arrives, so it can be clicked a second time
\* while the first click's fetch is outstanding.
ResetDoubleClick ==
  /\ resetListener
  /\ resetDisplay = "block"
  /\ issued = 1
  /\ pending = {1}
  /\ issued' = issued + 1
  /\ pending' = pending \cup {issued + 1}
  /\ UNCHANGED << serverVars, pageVars, store, rounds, container, containerDisabled, message,
                  winnerDisplay, resetDisplay, resetListener, thrown >>

NextReset ==
  \/ PageLoadFetched
  \/ ResetClick
  \/ ResetDoubleClick
  \/ \E q \in 1..(MaxResets + 1) : ResetFetched(q)
  \/ \E r \in 1..Len(rounds) : RevealTimer(r)
  \/ \E r \in 1..Len(rounds) : \E c \in 1..Len(rounds[r].cards) : Click(r, c)
  \/ \E r \in 1..Len(rounds) : AutoHideTimer(r)
  \/ \E r \in 1..Len(rounds) : MismatchTimer(r)

ResetSpec == Init /\ [][NextReset]_vars

\* The specification of board construction: histories of up to
\* MaxBoardRecords records, one page load and the round it starts.
InitBoard ==
  /\ store \in BoardStores
  /\ pending = {0}
  /\ issued = 0
  /\ rounds = << >>
  /\ container = 0
  /\ containerDisabled = FALSE
  /\ message = ""
  /\ winnerDisplay = "none"
  /\ resetDisplay = "none"
  /\ resetListener = FALSE
  /\ thrown = FALSE
  /\ ServerAtRest
  /\ PageAtRest

NextBoard ==
  \/ PageLoadFetched
  \/ \E r \in 1..Len(rounds) : RevealTimer(r)
  \/ \E r \in 1..Len(rounds) : \E c \in 1..Len(rounds[r].cards) : Click(r, c)
  \/ \E r \in 1..Len(rounds) : AutoHideTimer(r)
  \/ \E r \in 1..Len(rounds) : MismatchTimer(r)

BoardSpec == InitBoard /\ [][NextBoard]_vars

(***************************************************************************)
(* The card states of the specification, read off a card's class list.     *)
(***************************************************************************)
IsInitial(card) == "initial" \in card.classes
IsMatched(card) == "matched" \in card.classes
IsRevealed(card) == "flipped" \in card.classes /\ ~IsMatched(card)
IsHidden(card) ==
  /\ "hidden" \in card.classes
  /\ "flipped" \notin card.classes
  /\ ~IsMatched(card)
  /\ card.text = ""

Rnd == 1..Len(rounds)
CardsOf(r) == 1..Len(rounds[r].cards)
RevealedCards(rd) == { c \in 1..Len(rd.cards) : IsRevealed(rd.cards[c]) }
MatchedCards(rd) == { c \in 1..Len(rd.cards) : IsMatched(rd.cards[c]) }
\* round r is still a round after the step (it was not collected)
Kept(r) == rounds'[r].cards # << >>

(***************************************************************************)
(* C1: in every reachable state of a round the number of Revealed cards    *)
(* is 0, 1 or 2, where the Revealed cards (class 'flipped', not Matched)   *)
(* are exactly the cards past the Initial state that show their face and   *)
(* are not Matched.                                                        *)
(***************************************************************************)
FaceUpCards(rd) ==
  { c \in 1..Len(rd.cards) :
      /\ ~IsInitial(rd.cards[c])
      /\ ~IsMatched(rd.cards[c])
      /\ rd.cards[c].text # "" }

C1_AtMostTwoRevealed ==
  \A r \in Rnd :
    /\ Cardinality(RevealedCards(rounds[r])) \in {0, 1, 2}
    /\ FaceUpCards(rounds[r]) = RevealedCards(rounds[r])

\* two cards of different pairs are face up, waiting for the mismatch timer
C1_Witness ==
  \E r \in Rnd :
    /\ Cardinality(RevealedCards(rounds[r])) = 2
    /\ rounds[r].mismatchTimers > 0

(***************************************************************************)
(* C2: a card that is Matched stays Matched for the rest of its round: no  *)
(* later step changes its classes, its shown content or anything else of   *)
(* it, and a Matched card shows its content and is not hidden.             *)
(***************************************************************************)
MatchedFace(card) ==
  IsMatched(card) =>
    /\ card.text = card.content
    /\ "flipped" \in card.classes
    /\ "hidden" \notin card.classes

C2_MatchedStays ==
  /\ [](\A r \in Rnd : \A c \in CardsOf(r) : MatchedFace(rounds[r].cards[c]))
  /\ [][\A r \in Rnd : \A c \in CardsOf(r) :
          (IsMatched(rounds[r].cards[c]) /\ Kept(r))
            => rounds'[r].cards[c] = rounds[r].cards[c]]_vars

\* a pair is Matched and, later, another card is selected
C2_Witness ==
  \E r \in Rnd :
    /\ MatchedCards(rounds[r]) # {}
    /\ rounds[r].firstCard # 0

(***************************************************************************)
(* C3: matchedCount never decreases, changes only by +2, and always equals *)
(* the number of Matched cards of the round.                               *)
(***************************************************************************)
C3_MatchedCount ==
  /\ [](\A r \in Rnd :
          rounds[r].matchedCount = Cardinality(MatchedCards(rounds[r])))
  /\ [][\A r \in Rnd :
          Kept(r) =>
            \/ rounds'[r].matchedCount = rounds[r].matchedCount
            \/ rounds'[r].matchedCount = rounds[r].matchedCount + 2]_vars

\* two pairs have been matched
C3_Witness ==
  \E r \in Rnd :
    /\ rounds[r].matchedCount = 4
    /\ Cardinality(MatchedCards(rounds[r])) = 4

(***************************************************************************)
(* C4: the win signal (winner message and restart button shown) is raised  *)
(* in exactly the step where matchedCount becomes 2k, never while          *)
(* matchedCount < 2k, and at most once per round.                          *)
(***************************************************************************)
WinShown == winnerDisplay = "block" /\ resetDisplay = "block"
WinHidden == winnerDisplay = "none" /\ resetDisplay = "none"
AllMatched(rd) == rd.matchedCount = Len(rd.cards)

C4_WinExactlyOnce ==
  /\ [](\A r \in Rnd :
          rounds[r].cards # << >> =>
            /\ rounds[r].wins = (IF AllMatched(rounds[r]) THEN 1 ELSE 0)
            /\ (r = container /\ ~AllMatched(rounds[r])) => WinHidden
            /\ (r = container /\ AllMatched(rounds[r])) => WinShown)
  /\ [][\A r \in Rnd :
          Kept(r) =>
            /\ (rounds'[r].wins # rounds[r].wins) =>
                 /\ rounds'[r].wins = rounds[r].wins + 1
                 /\ ~AllMatched(rounds[r])
                 /\ AllMatched(rounds'[r])
                 /\ WinHidden /\ WinShown'
            /\ (~AllMatched(rounds[r]) /\ AllMatched(rounds'[r])) =>
                 rounds'[r].wins = rounds[r].wins + 1]_vars

\* the last pair of the board on the page has been matched
C4_Witness ==
  \E r \in Rnd :
    /\ r = container
    /\ rounds[r].matchedCount = 2 * MinPairs
    /\ rounds[r].wins = 1
    /\ WinShown

(***************************************************************************)
(* C5: the board is locked exactly when both selection slots hold cards of *)
(* different pairs and their mismatch timer is pending; it is unlocked     *)
(* before a second selection, after a match and after the timer fired.     *)
(***************************************************************************)
MismatchPending(rd) ==
  /\ rd.firstCard # 0
  /\ rd.secondCard # 0
  /\ rd.firstCard # rd.secondCard
  /\ PairIdOf(rd.cards[rd.firstCard]) # PairIdOf(rd.cards[rd.secondCard])
  /\ rd.mismatchTimers = 1

C5_LockedIffMismatchPending ==
  \A r \in Rnd :
    /\ rounds[r].lockBoard <=> MismatchPending(rounds[r])
    /\ ~rounds[r].lockBoard =>
         /\ rounds[r].secondCard = 0
         /\ rounds[r].mismatchTimers = 0

\* after an earlier match the board is locked on a mismatch
C5_Witness ==
  \E r \in Rnd :
    /\ rounds[r].lockBoard
    /\ rounds[r].matchedCount > 0

(***************************************************************************)
(* C6: a click while the board is locked, and a click on the current first *)
(* selection, change nothing: cards, slots, matchedCount, lock, timers.    *)
(***************************************************************************)
C6_IgnoredClickChangesNothing ==
  /\ [](\A r \in Rnd : \A c \in CardsOf(r) :
          (rounds[r].lockBoard \/ c = rounds[r].firstCard)
            => flipCard(rounds[r], c) = rounds[r])
  /\ [][\A r \in Rnd : \A c \in CardsOf(r) :
         ( /\ r = container
           /\ rounds[r].cards[c].listener
           /\ (rounds[r].lockBoard \/ c = rounds[r].firstCard)
           /\ Click(r, c) )
         => UNCHANGED vars]_vars

\* the board on the page is locked and has a hidden card to click, and a
\* first selection with its timer pending can be clicked again
C6_Witness ==
  \E r \in Rnd :
    /\ r = container
    /\ \/ /\ rounds[r].lockBoard
          /\ \E c \in CardsOf(r) :
               IsHidden(rounds[r].cards[c]) /\ rounds[r].cards[c].listener
       \/ /\ rounds[r].firstCard # 0
          /\ rounds[r].flipTimer
          /\ rounds[r].cards[rounds[r].firstCard].listener
    /\ rounds[r].matchedCount > 0

(***************************************************************************)
(* C7: a Matched card is never the first or second selection again and a   *)
(* click on it changes nothing in the round.                               *)
(***************************************************************************)
C7_MatchedNeverSelected ==
  /\ [](\A r \in Rnd : \A c \in CardsOf(r) :
          IsMatched(rounds[r].cards[c]) =>
            /\ ~rounds[r].cards[c].listener
            /\ c # rounds[r].firstCard
            /\ c # rounds[r].secondCard)
  /\ [][\A r \in Rnd : \A c \in CardsOf(r) :
          (r = container /\ IsMatched(rounds[r].cards[c]) /\ Click(r, c))
            => UNCHANGED vars]_vars

\* a Matched pair lies on the page while the round goes on
C7_Witness ==
  \E r \in Rnd :
    /\ r = container
    /\ MatchedCards(rounds[r]) # {}
    /\ rounds[r].firstCard # 0
    /\ ~rounds[r].lockBoard

(***************************************************************************)
(* C8: a second selection with the pair identifier of the first makes, in  *)
(* that click step, both cards Matched, matchedCount two larger, both      *)
(* slots empty and the board unlocked, with no timer left pending.         *)
(***************************************************************************)
SecondOfSamePair(rd, c) ==
  /\ rd.cards[c].listener
  /\ ~rd.lockBoard
  /\ rd.firstCard # 0
  /\ c # rd.firstCard
  /\ PairIdOf(rd.cards[c]) = PairIdOf(rd.cards[rd.firstCard])

NoTimerPending(rd) ==
  /\ ~rd.revealTimer
  /\ ~rd.flipTimer
  /\ rd.autoHideTimers = 0
  /\ rd.mismatchTimers = 0

C8_MatchInOneStep ==
  [][\A r \in Rnd : \A c \in CardsOf(r) :
       (r = container /\ SecondOfSamePair(rounds[r], c) /\ Click(r, c)) =>
         /\ IsMatched(rounds'[r].cards[c])
         /\ IsMatched(rounds'[r].cards[rounds[r].firstCard])
         /\ rounds'[r].matchedCount = rounds[r].matchedCount + 2
         /\ rounds'[r].firstCard = 0
         /\ rounds'[r].secondCard = 0
         /\ ~rounds'[r].lockBoard
         /\ NoTimerPending(rounds'[r])]_vars

\* the first two clicks of a round hit one pair (Scenario B)
C8_Witness ==
  \E r \in Rnd :
    /\ r = container
    /\ rounds[r].matchedCount = 2
    /\ \E c, d \in CardsOf(r) :
         /\ c # d
         /\ MatchedCards(rounds[r]) = {c, d}
         /\ PairIdOf(rounds[r].cards[c]) = PairIdOf(rounds[r].cards[d])
    /\ rounds[r].firstCard = 0
    /\ ~rounds[r].lockBoard

(***************************************************************************)
(* C9: after a second selection of a different pair the board stays locked *)
(* with both cards Revealed until the mismatch timer fires; when it fires  *)
(* both cards are Hidden with content cleared, both slots are empty, the   *)
(* board is unlocked and matchedCount is unchanged; with pending timers    *)
(* firing, this resolution always eventually happens.                      *)
(***************************************************************************)
AllRounds == 1..(MaxResets + 1)

C9_MismatchResolves ==
  /\ [](\A r \in Rnd :
          rounds[r].secondCard # 0 =>
            /\ MismatchPending(rounds[r])
            /\ rounds[r].lockBoard
            /\ IsRevealed(rounds[r].cards[rounds[r].firstCard])
            /\ IsRevealed(rounds[r].cards[rounds[r].secondCard]))
  /\ [][\A r \in Rnd :
          (rounds[r].secondCard # 0 /\ Kept(r)) =>
            IF MismatchTimer(r)
            THEN /\ IsHidden(rounds'[r].cards[rounds[r].firstCard])
                 /\ IsHidden(rounds'[r].cards[rounds[r].secondCard])
                 /\ rounds'[r].firstCard = 0
                 /\ rounds'[r].secondCard = 0
                 /\ ~rounds'[r].lockBoard
                 /\ rounds'[r].matchedCount = rounds[r].matchedCount
                 /\ rounds'[r].mismatchTimers = 0
            ELSE rounds'[r] = rounds[r]]_vars
  /\ \A r \in AllRounds :
       (r \in Rnd /\ rounds[r].secondCard # 0)
         ~> (r \in Rnd /\ rounds[r].secondCard = 0)

\* input-0 then output-1 were selected and wait for the mismatch timer
\* (Scenario C)
C9_Witness ==
  \E r \in Rnd :
    /\ r = container
    /\ rounds[r].firstCard # 0
    /\ rounds[r].secondCard # 0
    /\ rounds[r].cards[rounds[r].firstCard].id = << "input", 0 >>
    /\ rounds[r].cards[rounds[r].secondCard].id = << "output", 1 >>
    /\ rounds[r].lockBoard
    /\ rounds[r].mismatchTimers = 1
    /\ rounds[r].matchedCount = 0

(***************************************************************************)
(* C10: a first selection that is not followed by a second selection has   *)
(* its auto-hide timer pending, the timer eventually fires, and then that  *)
(* card is Hidden and the first slot empty while matchedCount, the lock    *)
(* and every other card are unchanged.                                     *)
(***************************************************************************)
C10_AutoHide ==
  /\ [](\A r \in Rnd :
          (rounds[r].firstCard # 0 /\ rounds[r].secondCard = 0) =>
            /\ rounds[r].flipTimer
            /\ rounds[r].autoHideTimers = 1
            /\ IsRevealed(rounds[r].cards[rounds[r].firstCard]))
  /\ [][\A r \in Rnd :
          (AutoHideTimer(r) /\ Kept(r)) =>
            /\ rounds[r].firstCard # 0
            /\ rounds'[r] =
                 [rounds[r] EXCEPT
                    !.cards[rounds[r].firstCard] = Hide(@),
                    !.firstCard = 0,
                    !.flipTimer = FALSE,
                    !.autoHideTimers = 0]
            /\ IsHidden(rounds'[r].cards[rounds[r].firstCard])
            /\ ~rounds'[r].lockBoard
            /\ UNCHANGED << winnerDisplay, resetDisplay, thrown >>]_vars
  /\ \A r \in AllRounds :
       (r \in Rnd /\ rounds[r].firstCard # 0 /\ rounds[r].secondCard = 0)
         ~> (r \in Rnd /\ (rounds[r].firstCard = 0 \/ rounds[r].secondCard # 0))

\* a first selection is waiting for its timer (Scenario D)
C10_Witness ==
  \E r \in Rnd :
    /\ r = container
    /\ rounds[r].firstCard # 0
    /\ rounds[r].secondCard = 0
    /\ rounds[r].autoHideTimers = 1
    /\ rounds[r].matchedCount = 0

(***************************************************************************)
(* C11: every accepted selection cancels the auto-hide timer pending at    *)
(* that moment: at most one auto-hide timer is pending at any time, none   *)
(* is pending once a second selection has been accepted, and an auto-hide  *)
(* timer fires only on a first selection that is still without a second.   *)
(***************************************************************************)
Accepted(rd, c) == rd.cards[c].listener /\ ~Ignored(rd, c)

C11_OneAutoHideTimer ==
  /\ [](\A r \in Rnd :
          /\ rounds[r].autoHideTimers \in {0, 1}
          /\ rounds[r].flipTimer <=> rounds[r].autoHideTimers = 1
          /\ rounds[r].secondCard # 0 => rounds[r].autoHideTimers = 0)
  /\ [][\A r \in Rnd : \A c \in CardsOf(r) :
          (r = container /\ Accepted(rounds[r], c) /\ Click(r, c)) =>
            rounds'[r].autoHideTimers =
              (IF rounds[r].firstCard = 0 THEN 1 ELSE 0)]_vars
  /\ [][\A r \in Rnd :
          AutoHideTimer(r) =>
            /\ rounds[r].firstCard # 0
            /\ rounds[r].secondCard = 0
            /\ rounds[r].autoHideTimers = 1]_vars

\* a second selection was accepted while the first selection's timer was
\* pending: the slots are filled and no auto-hide timer is left
C11_Witness ==
  \E r \in Rnd :
    /\ r = container
    /\ rounds[r].firstCard # 0
    /\ rounds[r].secondCard # 0
    /\ ~rounds[r].flipTimer
    /\ rounds[r].autoHideTimers = 0

(***************************************************************************)
(* C12: when reset starts a new round every timer of the previous round    *)
(* (reveal delay, auto-hide, mismatch) is cancelled: once a newer round    *)
(* exists, no timer of an older round is pending.                          *)
(***************************************************************************)
C12_OldTimersCancelled ==
  \A r \in Rnd : r < Len(rounds) => NoTimerPending(rounds[r])

(***************************************************************************)
(* C13: a timer callback of a round that is no longer on the page changes  *)
(* nothing of the round on the page (its cards, selection slots, lock,     *)
(* matchedCount, timers) and nothing of the page around it.                *)
(***************************************************************************)
TimerFires(r) == RevealTimer(r) \/ AutoHideTimer(r) \/ MismatchTimer(r)

Stale(r) == container # 0 /\ r # container /\ ~NoTimerPending(rounds[r])

C13_StaleTimerHarmless ==
  [][\A r \in Rnd :
       (Stale(r) /\ TimerFires(r)) =>
         /\ rounds'[container] = rounds[container]
         /\ UNCHANGED << container, containerDisabled, message,
                         winnerDisplay, resetDisplay, thrown >>]_vars

\* a replaced round still waits for its auto-hide or mismatch timer while
\* the round on the page has a first selection of its own
C13_Witness ==
  \E r \in Rnd :
    /\ Stale(r)
    /\ rounds[r].autoHideTimers + rounds[r].mismatchTimers > 0
    /\ rounds[container].firstCard # 0
    /\ rounds[container].flipTimer

(***************************************************************************)
(* C14: when the record set has fewer than 3 distinct input texts (the     *)
(* empty set included), starting a round shows the message, marks the      *)
(* board disabled, creates no card and starts no timer.                    *)
(***************************************************************************)
DistinctInputs(ts) == Cardinality({ ts[i].input : i \in 1..Len(ts) })

FetchAnswered == pending' # pending /\ pending' \subseteq pending

InsufficientData ==
  /\ message = NotEnoughWords
  /\ containerDisabled
  /\ container = 0

NothingBuilt ==
  /\ Len(rounds') = Len(rounds)
  /\ \A r \in Rnd : rounds'[r] \in { rounds[r], Collected(rounds[r]) }

C14_TooFewWords ==
  [][(FetchAnswered /\ DistinctInputs(store) < 3) =>
       (InsufficientData' /\ NothingBuilt)]_vars

\* three records with two distinct inputs were fetched
C14_Witness ==
  /\ Len(store) = 3
  /\ DistinctInputs(store) = 2
  /\ pending = {}
  /\ InsufficientData
  /\ rounds = << >>

(***************************************************************************)
(* C15: a record set with u >= 3 distinct input texts gives a round of     *)
(* exactly min(u, 6) pairs, and the pairs have pairwise different input    *)
(* texts.                                                                  *)
(***************************************************************************)
InputCards(rd) == { c \in 1..Len(rd.cards) : rd.cards[c].id[1] = "input" }
OutputCards(rd) == { c \in 1..Len(rd.cards) : rd.cards[c].id[1] = "output" }
PairIds(rd) == { PairIdOf(rd.cards[c]) : c \in 1..Len(rd.cards) }
InputTexts(rd) == { rd.cards[c].content : c \in InputCards(rd) }
Alive(r) == rounds[r].cards # << >>

PairsFor(u) == IF u < 6 THEN u ELSE 6

BuiltFrom(rd, u) ==
  /\ u >= 3
  /\ Cardinality(PairIds(rd)) = PairsFor(u)
  /\ Cardinality(InputCards(rd)) = PairsFor(u)
  /\ Cardinality(InputTexts(rd)) = PairsFor(u)

C15_PairCount ==
  /\ [](\A r \in Rnd : Alive(r) => BuiltFrom(rounds[r], DistinctInputs(store)))
  /\ [][(FetchAnswered /\ DistinctInputs(store) >= 3) =>
          \/ InsufficientData' /\ NothingBuilt
          \/ /\ container' = Len(rounds')
             /\ Len(rounds') = Len(rounds) + 1
             /\ BuiltFrom(rounds'[container'], DistinctInputs(store))]_vars

\* seven distinct inputs were fetched and the round has six pairs
C15_Witness ==
  /\ DistinctInputs(store) = 7
  /\ container # 0
  /\ Cardinality(PairIds(rounds[container])) = 6
  /\ Cardinality(InputTexts(rounds[container])) = 6

(***************************************************************************)
(* C16: when several fetched records share an input text, the pair built   *)
(* for that input carries the output text of the first of them in the      *)
(* fetched sequence.                                                       *)
(***************************************************************************)
FirstOutput(ts, inp) ==
  ts[CHOOSE i \in 1..Len(ts) :
       /\ ts[i].input = inp
       /\ \A j \in 1..(i - 1) : ts[j].input # inp].output

C16_KeepsFirstOccurrence ==
  \A r \in Rnd : \A c \in InputCards(rounds[r]) : \A d \in OutputCards(rounds[r]) :
    PairIdOf(rounds[r].cards[c]) = PairIdOf(rounds[r].cards[d]) =>
      rounds[r].cards[d].content = FirstOutput(store, rounds[r].cards[c].content)

(***************************************************************************)
(* C17: a board of k pairs holds exactly 2k cards; for every pair index i  *)
(* in 0..k-1 exactly two cards carry it, one with id input-i showing the   *)
(* input of a fetched record and one with id output-i showing that         *)
(* record's output.                                                        *)
(***************************************************************************)
CardsWithId(rd, id) == { c \in 1..Len(rd.cards) : rd.cards[c].id = id }

IsPairOf(ts, ci, co) ==
  \E j \in 1..Len(ts) : ts[j].input = ci.content /\ ts[j].output = co.content

WellFormedBoard(rd, ts) ==
  LET k == Cardinality(PairIds(rd)) IN
  /\ Len(rd.cards) = 2 * k
  /\ PairIds(rd) = 0..(k - 1)
  /\ \A i \in 0..(k - 1) :
       /\ Cardinality({ c \in 1..Len(rd.cards) : PairIdOf(rd.cards[c]) = i }) = 2
       /\ Cardinality(CardsWithId(rd, << "input", i >>)) = 1
       /\ Cardinality(CardsWithId(rd, << "output", i >>)) = 1
       /\ \A c \in CardsWithId(rd, << "input", i >>) :
            \A d \in CardsWithId(rd, << "output", i >>) :
              IsPairOf(ts, rd.cards[c], rd.cards[d])

C17_BoardOfPairs ==
  \A r \in Rnd : Alive(r) => WellFormedBoard(rounds[r], store)

\* a board of four pairs and eight cards (Scenario B)
C17_Witness ==
  /\ container # 0
  /\ Len(rounds[container].cards) = 8
  /\ PairIds(rounds[container]) = 0..3
  /\ rounds[container].matchedCount = 2

(***************************************************************************)
(* C18: when the fetch of the history fails (network error or a status     *)
(* that is not ok) the game gets an empty record set and takes the         *)
(* not-enough-words path (message shown, board disabled, nothing built)    *)
(* with no error raised, at page load and on reset.                        *)
(***************************************************************************)
C18_FetchFailure ==
  [][\A q \in pending : \A response \in Responses :
       ( /\ response.kind # "ok"
         /\ pending' = pending \ {q}
         /\ initializeGame(fetchTranslations(response), q) )
       => /\ fetchTranslations(response) = << >>
          /\ InsufficientData'
          /\ NothingBuilt
          /\ WinHidden'
          /\ thrown' = thrown
          /\ q = 0 => resetListener']_vars

\* the fetch of a reset failed although the history has enough words
C18_Witness ==
  /\ DistinctInputs(store) >= 3
  /\ issued = 1
  /\ pending = {}
  /\ InsufficientData
  /\ WinHidden

(***************************************************************************)
(* C19: from the start of a round until its reveal timer fires every card  *)
(* is Initial and shows its content, and no click changes anything; when   *)
(* the timer fires all cards become Hidden with content cleared in that    *)
(* one step, and only from then on is a selection accepted.                *)
(***************************************************************************)
Untouched(rd) ==
  /\ \A c \in 1..Len(rd.cards) :
       /\ IsInitial(rd.cards[c])
       /\ rd.cards[c].classes = {"box", "initial"}
       /\ rd.cards[c].text = rd.cards[c].content
  /\ rd.firstCard = 0
  /\ rd.secondCard = 0
  /\ ~rd.lockBoard
  /\ rd.matchedCount = 0
  /\ rd.autoHideTimers = 0
  /\ rd.mismatchTimers = 0

AllHidden(rd) == \A c \in 1..Len(rd.cards) : IsHidden(rd.cards[c])

C19_RevealPhase ==
  /\ [](\A r \in Rnd :
          Alive(r) =>
            /\ rounds[r].revealTimer => Untouched(rounds[r])
            /\ ~rounds[r].revealTimer =>
                 \A c \in CardsOf(r) : ~IsInitial(rounds[r].cards[c]))
  /\ [][\A r \in Rnd : \A c \in CardsOf(r) :
          (r = container /\ rounds[r].revealTimer /\ Click(r, c))
            => UNCHANGED vars]_vars
  /\ [][\A r \in Rnd :
          (rounds[r].revealTimer /\ RevealTimer(r) /\ Kept(r)) =>
            /\ AllHidden(rounds'[r])
            /\ ~rounds'[r].revealTimer
            /\ rounds'[r].firstCard = 0]_vars
  /\ [][\A r \in Rnd : \A c \in CardsOf(r) :
          (r = container /\ ~rounds[r].revealTimer /\ AllHidden(rounds[r])
             /\ Click(r, c))
            => (rounds'[r].firstCard = c /\ IsRevealed(rounds'[r].cards[c]))]_vars

\* the reveal timer of the round on the page has fired and the first click
\* after it was accepted
C19_Witness ==
  \E r \in Rnd :
    /\ r = container
    /\ ~rounds[r].revealTimer
    /\ rounds[r].firstCard # 0
    /\ rounds[r].matchedCount = 0
    /\ \A c \in CardsOf(r) :
         c # rounds[r].firstCard => IsHidden(rounds[r].cards[c])

(***************************************************************************)
(* C20: no timer callback meets an empty selection slot: while an          *)
(* auto-hide timer is pending the first slot holds the card whose          *)
(* selection started it, while a mismatch timer is pending both slots are  *)
(* filled, and no callback ever dereferences a null card.                  *)
(***************************************************************************)
C20_SlotsFilledForTimers ==
  /\ [](/\ ~thrown
        /\ \A r \in Rnd :
             /\ rounds[r].autoHideTimers > 0 =>
                  /\ rounds[r].firstCard # 0
                  /\ IsRevealed(rounds[r].cards[rounds[r].firstCard])
             /\ rounds[r].mismatchTimers > 0 =>
                  /\ rounds[r].firstCard # 0
                  /\ rounds[r].secondCard # 0)
  /\ [][\A r \in Rnd :
          /\ AutoHideTimer(r) => rounds[r].firstCard # 0
          /\ MismatchTimer(r) =>
               (rounds[r].firstCard # 0 /\ rounds[r].secondCard # 0)]_vars
  /\ [][\A r \in Rnd :
          Kept(r) =>
            /\ (rounds[r].autoHideTimers = 0 /\ rounds'[r].autoHideTimers > 0) =>
                 /\ rounds[r].firstCard = 0
                 /\ rounds'[r].firstCard # 0
                 /\ ~IsRevealed(rounds[r].cards[rounds'[r].firstCard])
            /\ (rounds[r].autoHideTimers > 0 /\ rounds'[r].autoHideTimers > 0) =>
                 rounds'[r].firstCard = rounds[r].firstCard]_vars

\* after a matched pair, two cards of different pairs wait for the mismatch
\* timer with both slots filled
C20_Witness ==
  \E r \in Rnd :
    /\ r = container
    /\ rounds[r].mismatchTimers = 1
    /\ rounds[r].firstCard # 0
    /\ rounds[r].secondCard # 0
    /\ rounds[r].matchedCount = 2
    /\ ~thrown

(***************************************************************************)
(* C26: whether a second selection is a match depends only on the pair     *)
(* identifiers of the two cards: two cards showing the same text but of    *)
(* different pairs are a mismatch, the input and the output card of one    *)
(* pair are a match.                                                       *)
(***************************************************************************)
SecondSelection(rd, c) ==
  /\ rd.cards[c].listener
  /\ ~rd.lockBoard
  /\ rd.firstCard # 0
  /\ c # rd.firstCard

ResolvedAsMatch(rd, after, c) ==
  /\ IsMatched(after.cards[c])
  /\ IsMatched(after.cards[rd.firstCard])
  /\ after.matchedCount = rd.matchedCount + 2
  /\ ~after.lockBoard
  /\ after.mismatchTimers = 0

ResolvedAsMismatch(rd, after, c) ==
  /\ ~IsMatched(after.cards[c])
  /\ ~IsMatched(after.cards[rd.firstCard])
  /\ after.matchedCount = rd.matchedCount
  /\ after.lockBoard
  /\ after.mismatchTimers = 1

SamePair(a, b) ==
  \E i \in 0..(MaxPairs - 1) :
    { a.id, b.id } = { << "input", i >>, << "output", i >> }

C26_MatchByPairId ==
  [][\A r \in Rnd : \A c \in CardsOf(r) :
       (r = container /\ SecondSelection(rounds[r], c) /\ Click(r, c)) =>
         IF SamePair(rounds[r].cards[c], rounds[r].cards[rounds[r].firstCard])
         THEN ResolvedAsMatch(rounds[r], rounds'[r], c)
         ELSE ResolvedAsMismatch(rounds[r], rounds'[r], c)]_vars

\* two cards of different pairs showing the same text were selected and
\* wait for the mismatch timer
C26_Witness ==
  \E r \in Rnd :
    /\ r = container
    /\ rounds[r].firstCard # 0
    /\ rounds[r].secondCard # 0
    /\ rounds[r].cards[rounds[r].firstCard].content
         = rounds[r].cards[rounds[r].secondCard].content
    /\ PairIdOf(rounds[r].cards[rounds[r].firstCard])
         # PairIdOf(rounds[r].cards[rounds[r].secondCard])
    /\ rounds[r].lockBoard
    /\ rounds[r].mismatchTimers = 1

(***************************************************************************)
(* C27: a round started from a record set with at least 3 distinct inputs  *)
(* has a board that is not marked disabled, also when an earlier round     *)
(* start ended with the not-enough-words message.                          *)
(***************************************************************************)
C27_PlayableNotDisabled ==
  container # 0 => ~containerDisabled

(***************************************************************************)
(* C28: when several reset fetches were outstanding at once, the round on  *)
(* the page after all of them have completed is the one started for the    *)
(* reset issued last.                                                      *)
(***************************************************************************)
C28_LastIssuedWins ==
  (pending = {} /\ container # 0 /\ issued > 0) =>
    rounds[container].req = issued

(***************************************************************************)
(* The history store (PouchDB "translation-history") and its routes.       *)
(* A document id is the string id.toString(), kept as its sequence of      *)
(* decimal digits; allDocs orders documents by comparing these strings.    *)
(***************************************************************************)
RECURSIVE toString(_)
toString(n) == IF n < 10 THEN << n >> ELSE Append(toString(n \div 10), n % 10)

RECURSIVE parseInt(_)
parseInt(str) ==
  IF str = << >> THEN 0
  ELSE 10 * parseInt(SubSeq(str, 1, Len(str) - 1)) + str[Len(str)]

\* a < b as strings: at the first position where they differ, or a is a
\* proper prefix of b
StrLess(a, b) ==
  \E i \in 1..(Len(b)) :
    /\ \A j \in 1..(i - 1) : j <= Len(a) /\ a[j] = b[j]
    /\ (i > Len(a) \/ a[i] < b[i])

Phrase(i, o, li, lo) ==
  [input |-> i, output |-> o, lang_in |-> li, lang_out |-> lo]

\* The translations a client asks to store, in the order in which new ones
\* come up; the first two differ in lang_out only.
Phrases ==
  << Phrase("hello", "bonjour", "en", "fr"), Phrase("hello", "hola", "en", "es"),
     Phrase("cat", "chat", "en", "fr"),      Phrase("dog", "chien", "en", "fr"),
     Phrase("sun", "soleil", "en", "fr"),    Phrase("sky", "ciel", "en", "fr"),
     Phrase("sea", "mer", "en", "fr"),       Phrase("tree", "arbre", "en", "fr"),
     Phrase("bird", "oiseau", "en", "fr"),   Phrase("fish", "poisson", "en", "fr"),
     Phrase("moon", "lune", "en", "fr"),     Phrase("star", "etoile", "en", "fr"),
     Phrase("rain", "pluie", "en", "fr"),    Phrase("snow", "neige", "en", "fr") >>

\* request bodies with a field missing or empty (both are falsy)
BadBodies ==
  { Phrase("", "bonjour", "en", "fr"), Phrase("hello", "", "en", "fr"),
    Phrase("hello", "bonjour", "", "fr"), Phrase("hello", "bonjour", "en", "") }

\* a stored document; rev stands for the revision string and is the store's
\* update sequence number at the write
Doc(id, body, rev) ==
  [ _id |-> id, input |-> body.input, output |-> body.output,
    lang_in |-> body.lang_in, lang_out |-> body.lang_out,
    deleted |-> FALSE, rev |-> rev ]

Tombstone(id, rev) ==
  [ _id |-> id, input |-> "", output |-> "", lang_in |-> "", lang_out |-> "",
    deleted |-> TRUE, rev |-> rev ]

Live(d) == { x \in d : ~x.deleted }

NextSeq(d) ==
  IF d = {} THEN 1
  ELSE (CHOOSE m \in { x.rev : x \in d } : \A x \in d : x.rev <= m) + 1

\* the document that comes first in descending key order
Last(docs) == CHOOSE x \in docs : \A y \in docs : y = x \/ StrLess(y._id, x._id)

RECURSIVE Descending(_)
Descending(docs) ==
  IF docs = {} THEN << >>
  ELSE << Last(docs) >> \o Descending(docs \ { Last(docs) })

\* db.allDocs({ include_docs: true, descending: true, limit })
AllDocsDescending(d, limit) ==
  SubSeq(Descending(Live(d)), 1, Min2(limit, Cardinality(Live(d))))

SameKey(x, body) ==
  /\ x.input = body.input
  /\ x.lang_in = body.lang_in
  /\ x.lang_out = body.lang_out

\* findTranslation: the id of a stored translation, truthy when there is one
findTranslation(d, body) == \E x \in Live(d) : SameKey(x, body)

nextID(d) ==
  LET lastTranslation == AllDocsDescending(d, 1) IN
  IF Len(lastTranslation) > 0
  THEN toString(parseInt(lastTranslation[1]._id) + 1)
  ELSE toString(0)

\* variant: the id of a deleted document cannot be used again
PutConflictsDeleted(d, id) == \E x \in d : x._id = id

\* db.put of a document without _rev: 409 when a document with the id exists
PutConflicts(d, id) == \E x \in Live(d) : x._id = id

Put(d, id, body) ==
  { x \in d : x._id # id } \cup { Doc(id, body, NextSeq(d)) }

\* db.bulkDocs of deletions: a row whose rev is no longer current is refused
BulkDelete(d, rows) ==
  { IF ~x.deleted /\ [id |-> x._id, rev |-> x.rev] \in rows
    THEN Tombstone(x._id, NextSeq(d)) ELSE x : x \in d }

\* loadHistory(n)
loadHistory(d, n) == AllDocsDescending(d, n)

\* variant: only the input is required
RejectedNoInput(body) == body.input = ""

\* if (!input || !output || !lang_in || !lang_out)
Rejected(body) ==
  body.input = "" \/ body.output = "" \/ body.lang_in = "" \/ body.lang_out = ""

Connections == 1..2

AllIdle == \A s \in Connections : inflight[s] = Idle

Sent(route, status) == [route |-> route, status |-> status]

\* the phrases a store request may carry: every phrase already asked for
\* and the first one not yet asked for
Asked ==
  { j \in 1..Len(Phrases) :
      \/ \E x \in Live(db) : SameKey(x, Phrases[j])
      \/ \E s \in Connections :
           inflight[s].kind = "store" /\ inflight[s].body = Phrases[j] }

StoreBodies ==
  { Phrases[j] : j \in { k \in 1..Len(Phrases) : \A i \in 1..(k - 1) : i \in Asked } }
    \cup BadBodies

\* POST /store up to the first await of saveTranslation
StoreRequest(s, body) ==
  /\ inflight[s] = Idle
  /\ IF Rejected(body)
     THEN /\ reply' = Sent("store", 400)
          /\ UNCHANGED inflight
     ELSE /\ inflight' = [inflight EXCEPT ![s] =
                            [kind |-> "store", pc |-> "find", body |-> body]]
          /\ UNCHANGED reply
  /\ UNCHANGED << gameVars, pageVars, db, clears >>

\* db.find has answered
FindDone(s) ==
  /\ inflight[s].kind = "store"
  /\ inflight[s].pc = "find"
  /\ IF findTranslation(db, inflight[s].body)
     THEN /\ inflight' = [inflight EXCEPT ![s] = Idle]
          /\ reply' = Sent("store", 200)
     ELSE /\ inflight' = [inflight EXCEPT ![s].pc = "nextID"]
          /\ UNCHANGED reply
  /\ UNCHANGED << gameVars, pageVars, db, clears >>

\* the allDocs of nextID has answered; db.put is sent
NextIdDone(s) ==
  /\ inflight[s].kind = "store"
  /\ inflight[s].pc = "nextID"
  /\ inflight' = [inflight EXCEPT ![s] =
                    [kind |-> "store", pc |-> "put", body |-> inflight[s].body,
                     id |-> nextID(db)]]
  /\ UNCHANGED << gameVars, pageVars, db, reply, clears >>

\* db.put has answered; a conflict makes saveTranslation throw
PutDone(s) ==
  /\ inflight[s].kind = "store"
  /\ inflight[s].pc = "put"
  /\ IF PutConflicts(db, inflight[s].id)
     THEN /\ reply' = Sent("store", 500)
          /\ UNCHANGED db
     ELSE /\ db' = Put(db, inflight[s].id, inflight[s].body)
          /\ reply' = Sent("store", 200)
  /\ inflight' = [inflight EXCEPT ![s] = Idle]
  /\ UNCHANGED << gameVars, pageVars, clears >>

\* DELETE /clear up to the first await of clearTranslationHistory
ClearRequest(s) ==
  /\ inflight[s] = Idle
  /\ clears < MaxClears
  /\ clears' = clears + 1
  /\ inflight' = [inflight EXCEPT ![s] = [kind |-> "clear", pc |-> "allDocs"]]
  /\ UNCHANGED << gameVars, pageVars, db, reply >>

ClearAllDocsDone(s) ==
  /\ inflight[s].kind = "clear"
  /\ inflight[s].pc = "allDocs"
  /\ inflight' = [inflight EXCEPT ![s] =
                    [kind |-> "clear", pc |-> "bulkDocs",
                     rows |-> { [id |-> x._id, rev |-> x.rev] : x \in Live(db) }]]
  /\ UNCHANGED << gameVars, pageVars, db, reply, clears >>

ClearBulkDocsDone(s) ==
  /\ inflight[s].kind = "clear"
  /\ inflight[s].pc = "bulkDocs"
  /\ db' = BulkDelete(db, inflight[s].rows)
  /\ reply' = Sent("clear", 200)
  /\ inflight' = [inflight EXCEPT ![s] = Idle]
  /\ UNCHANGED << gameVars, pageVars, clears >>

LoadLimits == {0, 1, 50}

\* GET /read?n=...
ReadRequest(n) ==
  /\ reply' = [route |-> "read", status |-> 200, rows |-> loadHistory(db, n)]
  /\ UNCHANGED << gameVars, pageVars, db, inflight, clears >>

\* the game page is not open
GameAtRest ==
  /\ store = << >>
  /\ pending = {}
  /\ issued = 0
  /\ rounds = << >>
  /\ container = 0
  /\ containerDisabled = FALSE
  /\ message = ""
  /\ winnerDisplay = "none"
  /\ resetDisplay = "none"
  /\ resetListener = FALSE
  /\ thrown = FALSE

InitServer ==
  /\ db = {}
  /\ inflight = << Idle, Idle >>
  /\ reply = NoResponse
  /\ clears = 0
  /\ GameAtRest
  /\ PageAtRest

\* The specification of the store under requests that do not overlap.
StoreRequestAlone(body) ==
  AllIdle /\ NextSeq(db) <= MaxWrites /\ StoreRequest(1, body)

ClearRequestAlone == AllIdle /\ NextSeq(db) <= MaxWrites /\ ClearRequest(1)

ReadRequestAlone(n) == AllIdle /\ ReadRequest(n)

NextServer ==
  \/ \E body \in StoreBodies : StoreRequestAlone(body)
  \/ ClearRequestAlone
  \/ \E n \in LoadLimits : ReadRequestAlone(n)
  \/ FindDone(1)
  \/ NextIdDone(1)
  \/ PutDone(1)
  \/ ClearAllDocsDone(1)
  \/ ClearBulkDocsDone(1)

ServerSpec == InitServer /\ [][NextServer]_vars

\* The specification of the store under two connections whose requests
\* overlap.
StoreRequestRacing(s, body) ==
  NextSeq(db) <= MaxRaceWrites /\ StoreRequest(s, body)

ClearRequestRacing(s) == NextSeq(db) <= MaxRaceWrites /\ ClearRequest(s)

NextRace ==
  \/ \E s \in Connections : \E body \in StoreBodies : StoreRequestRacing(s, body)
  \/ \E s \in Connections : ClearRequestRacing(s)
  \/ \E s \in Connections : FindDone(s)
  \/ \E s \in Connections : NextIdDone(s)
  \/ \E s \in Connections : PutDone(s)
  \/ \E s \in Connections : ClearAllDocsDone(s)
  \/ \E s \in Connections : ClearBulkDocsDone(s)

RaceSpec == InitServer /\ [][NextRace]_vars

(***************************************************************************)
(* C21: after any sequence of saves, overlapping ones included, the store  *)
(* holds at most one record for each combination of input, lang_in and     *)
(* lang_out.                                                               *)
(***************************************************************************)
C21_OneRecordPerKey ==
  \A x, y \in Live(db) : SameKey(x, y) => x = y

(***************************************************************************)
(* C22: in every store state reached by successful saves and for every     *)
(* n >= 0, loading the history with limit n returns exactly min(n, number  *)
(* of stored records) records, the most recently stored ones, newest       *)
(* first.                                                                  *)
(***************************************************************************)
\* the k most recently written documents, newest first
RECURSIVE NewestFirst(_, _)
NewestFirst(docs, k) ==
  IF k = 0 \/ docs = {} THEN << >>
  ELSE LET newest == CHOOSE x \in docs : \A y \in docs : y.rev <= x.rev
       IN  << newest >> \o NewestFirst(docs \ { newest }, k - 1)

C22_LoadMostRecent ==
  \A n \in 0..(Cardinality(Live(db)) + 1) :
    /\ Len(loadHistory(db, n)) = Min2(n, Cardinality(Live(db)))
    /\ loadHistory(db, n) = NewestFirst(Live(db), n)

(***************************************************************************)
(* C23: whatever is already stored, the save of a translation whose        *)
(* (input, lang_in, lang_out) is not stored succeeds and adds exactly one  *)
(* record, under an identifier no stored record uses and numerically one   *)
(* greater than the largest stored identifier (0 for an empty store).      *)
(***************************************************************************)
LargestId(docs) ==
  CHOOSE m \in { parseInt(x._id) : x \in docs } :
    \A x \in docs : parseInt(x._id) <= m

ExpectedId(docs) == IF docs = {} THEN 0 ELSE LargestId(docs) + 1

C23_SaveAddsOne ==
  [][\A s \in Connections :
       ( /\ inflight[s].kind = "store"
         /\ inflight[s].pc = "put"
         /\ ~findTranslation(db, inflight[s].body)
         /\ PutDone(s) )
       => /\ reply' = Sent("store", 200)
          /\ \E x \in Live(db') :
               /\ Live(db') = Live(db) \cup { x }
               /\ x \notin Live(db)
               /\ SameKey(x, inflight[s].body)
               /\ x.output = inflight[s].body.output
               /\ \A y \in Live(db) : y._id # x._id
               /\ parseInt(x._id) = ExpectedId(Live(db))]_vars

(***************************************************************************)
(* C24: a store request with input, output, lang_in or lang_out missing or *)
(* empty is answered 400 and leaves the store unchanged; a request with    *)
(* all four is answered 200 when the translation is stored afterwards      *)
(* (saved now or already there) and 500 when the save threw.               *)
(***************************************************************************)
Stored(d, body) == \E x \in Live(d) : SameKey(x, body)

C25_ClearThenSave ==
  /\ [][ClearBulkDocsDone(1) =>
          /\ reply' = Sent("clear", 200)
          /\ Live(db') = {}
          /\ \A n \in 0..MaxWrites : loadHistory(db', n) = << >>]_vars
  /\ [][(clears > 0 /\ Live(db) = {} /\ inflight[1].kind = "store"
           /\ inflight[1] # inflight'[1]) =>
          \/ inflight'[1].kind = "store"
          \/ /\ reply' = Sent("store", 200)
             /\ Cardinality(Live(db')) = 1
             /\ \A x \in Live(db') :
                  /\ SameKey(x, inflight[1].body)
                  /\ x.output = inflight[1].body.output
                  /\ loadHistory(db', 50) = << x >>]_vars

\* ten records were cleared and one translation was saved after that
C25_Witness ==
  /\ clears = 1
  /\ Cardinality(db) = 10
  /\ Cardinality(Live(db)) = 1
  /\ reply = Sent("store", 200)
  /\ AllIdle

(***************************************************************************)
(* The translate page: the input box, the two language dropdowns, the      *)
(* switch button and translateText with its POST /translate requests.      *)
(***************************************************************************)
Langs == { "en", "fr" }
Typed == { "", "hi", "salut" }

DistinctLanguages == "PLEASE SELECT TWO DISTINCT LANGUAGES"
TranslationFailed == "Translation failed."
ErrorDuringTranslation == "Error during translation."

\* what the translation API answers for a text and a language pair
Translated(text, li, lo) ==
  IF li = lo THEN DistinctLanguages
  ELSE IF text = "hi" /\ li = "en" /\ lo = "fr" THEN "salut"
  ELSE IF text = "salut" /\ li = "fr" /\ lo = "en" THEN "hi"
  ELSE text

\* what translateText writes into the output box when its fetch settles:
\* the text of a 200, the error of a 400, or one of its two failure texts
Shown(req) ==
  { Translated(req.input, req.lang_in, req.lang_out),
    TranslationFailed, ErrorDuringTranslation }

\* translateText up to its await, on the values the controls hold now
translateText(text, li, lo, out) ==
  IF text = ""
  THEN /\ outputText' = ""
       /\ UNCHANGED translating
  ELSE /\ Len(translating) < MaxTranslating
       /\ translating' =
            Append(translating, [input |-> text, lang_in |-> li, lang_out |-> lo])
       /\ outputText' = out

\* the user edits the input box
InputEvent(text) ==
  /\ text # inputText
  /\ inputText' = text
  /\ translateText(text, langIn, langOut, outputText)
  /\ UNCHANGED << gameVars, serverVars, langIn, langOut >>

\* the user picks another language in a dropdown
LanguageChange(li, lo) ==
  /\ << li, lo >> # << langIn, langOut >>
  /\ li = langIn \/ lo = langOut
  /\ langIn' = li
  /\ langOut' = lo
  /\ translateText(inputText, li, lo, outputText)
  /\ UNCHANGED << gameVars, serverVars, inputText >>

\* the switch button: swap the languages and the texts, then translate
SwitchClick ==
  LET text == IF inputText # "" /\ outputText # "" THEN outputText
              ELSE IF inputText # "" \/ outputText # "" THEN outputText \o inputText
              ELSE inputText
      out  == IF inputText # "" /\ outputText # "" THEN inputText
              ELSE IF inputText # "" \/ outputText # "" THEN ""
              ELSE outputText
  IN  /\ langIn' = langOut
      /\ langOut' = langIn
      /\ inputText' = text
      /\ translateText(text, langOut, langIn, out)
      /\ UNCHANGED << gameVars, serverVars >>

\* the fetch of the k-th outstanding request settles
TranslateSettled(k) ==
  /\ k \in 1..Len(translating)
  /\ outputText' \in Shown(translating[k])
  /\ translating' = [j \in 1..(Len(translating) - 1) |->
                       IF j < k THEN translating[j] ELSE translating[j + 1]]
  /\ UNCHANGED << gameVars, serverVars, inputText, langIn, langOut >>

InitPage ==
  /\ inputText = ""
  /\ outputText = ""
  /\ langIn \in Langs
  /\ langOut \in Langs
  /\ translating = << >>
  /\ GameAtRest
  /\ ServerAtRest

NextPage ==
  \/ \E text \in Typed : InputEvent(text)
  \/ \E li \in Langs : \E lo \in Langs : LanguageChange(li, lo)
  \/ SwitchClick
  \/ \E k \in 1..MaxTranslating : TranslateSettled(k)

PageSpec == InitPage /\ [][NextPage]_vars

(***************************************************************************)
(* C29: once every outstanding translate request has completed, the output *)
(* box shows the result for the text and the language pair now in the      *)
(* controls, and is empty when the input box is empty.                     *)
(***************************************************************************)
C29_OutputMatchesInput ==
  translating = << >> =>
    IF inputText = ""
    THEN outputText = ""
    ELSE outputText \in
           Shown([input |-> inputText, lang_in |-> langIn, lang_out |-> langOut])

=============================================================================
